---- MODULE Spec2Model ----
(***************************************************************************)
(* Model of BootNVMDriver_STM32L0x3.c: the NVM (FLASH) driver of the       *)
(* STM32L053 bootloader.  The driver's functions are modelled statement by *)
(* statement (one step per source line, named after the line); the NVM     *)
(* controller they drive is modelled as a register model (PECR, SR, the    *)
(* two key ports, the memory array, the interrupt line).                   *)
(*                                                                         *)
(* A 32-bit word is a pair <<high half, low half>> of 16-bit numbers.      *)
(* A register is the set of the numbers of its bits that are 1.            *)
(*                                                                         *)
(* What the controller is taken to do:                                     *)
(*  - a bit of PECR changes only when the program writes it (or a key pair *)
(*    clears a lock): setting PELOCK leaves PRGLOCK and the mode bits as   *)
(*    they are;                                                            *)
(*  - a store to the NVM is interpreted under the mode bits of PECR at the *)
(*    time of the store, ERASE first, then FPRG; it is ignored while a     *)
(*    lock is set or BSY is 1;                                             *)
(*  - programming ORs the new word into the old one, so the empty word is  *)
(*    0x00000000;                                                          *)
(*  - an operation ends with EOP, with EOP and NOTZEROERR, or aborted with *)
(*    WRPERR and without EOP;                                              *)
(*  - FLASH_IRQn is latched pending while an error flag and ERRIE are set, *)
(*    and taken before the next statement once it is enabled and PRIMASK   *)
(*    is clear.                                                            *)
(***************************************************************************)
EXTENDS Integers, Sequences, FiniteSets, TLC

----------------------------------------------------------------------------
(* Geometry and bounds *)

FlashBase == 134230016          \* 0x08003000, first modelled page
WordBytes == 4
WordsPerPage == 32              \* 8 rows of 4 words, 128 bytes
WordsPerHalfPage == 16
NumPages == 2                   \* pages of NVM in the model
MaxCalls == 3                   \* driver calls made by the caller in one run
MaxRegWrites == 5               \* register writes in the register-model exercise

PageBytes == WordsPerPage * WordBytes
HalfPageBytes == WordsPerHalfPage * WordBytes

WordAddrs == {FlashBase + WordBytes * k : k \in 0..(NumPages * WordsPerPage - 1)}
PageAddrs == {FlashBase + PageBytes * k : k \in 0..(NumPages - 1)}

PageOf(a) == a - ((a - FlashBase) % PageBytes)
HalfPageOf(a) == a - ((a - FlashBase) % HalfPageBytes)
PageWords(p) == {p + WordBytes * k : k \in 0..(WordsPerPage - 1)}
HalfPageWords(b) == {b + WordBytes * k : k \in 0..(WordsPerHalfPage - 1)}

----------------------------------------------------------------------------
(* 32-bit words *)

RECURSIVE Or16(_, _)
Or16(a, b) ==
    IF a = 0 THEN b
    ELSE IF b = 0 THEN a
    ELSE (IF a % 2 = 1 \/ b % 2 = 1 THEN 1 ELSE 0) + 2 * Or16(a \div 2, b \div 2)

WordOr(x, y) == <<Or16(x[1], y[1]), Or16(x[2], y[2])>>
Word(n) == <<n \div 65536, n % 65536>>

AllOnes == <<65535, 65535>>     \* 0xFFFFFFFF
AllZeros == <<0, 0>>            \* 0x00000000
ErasedWord == AllZeros

PEKEY1 == <<35243, 52719>>      \* 0x89ABCDEF
PEKEY2 == <<515, 1029>>         \* 0x02030405
PRGKEY1 == <<35997, 44735>>     \* 0x8C9DAEBF
PRGKEY2 == <<4884, 5398>>       \* 0x13141516
BadKey == <<0, 1>>              \* a value that is neither half of a key pair

(* Register bits *)
PELOCK == 0
PRGLOCK == 1
PROG == 3
ERASE == 9
FPRG == 10
EOPIE == 16
ERRIE == 17
BSY == 0
EOP == 1
ErrMask == {8, 9, 10, 11, 13, 16, 17}      \* 0x32F << 8
WRPERR == 8
NOTZEROERR == 16

(* The source buffer of the half-page writes: entry k holds the word k. *)
BufLen == NumPages * WordsPerPage
Rx_Message_buf == [k \in 0..(BufLen - 1) |-> Word(k)]

----------------------------------------------------------------------------
VARIABLES
    pc,         \* position of the main program: "idle" or a source line
    arg,        \* arguments of the running call
    loop_i,     \* loop counter i of FLASHUpd_HalfPage
    hist,       \* the calls that have returned, in order
    PECR,       \* FLASH->PECR
    SR,         \* FLASH->SR
    pekey,      \* key port PEKEYR: 1 when the first half has been accepted
    prgkey,     \* key port PRGKEYR: 1 when the first half has been accepted
    mem,        \* the NVM words
    burst,      \* words latched by the controller in half-page mode
    hwop,       \* the operation the controller is executing (BSY = 1)
    primask,    \* TRUE when __disable_irq() is in force
    nvic_en,    \* FLASH_IRQn enabled in the NVIC
    nvic_pend,  \* FLASH_IRQn pending in the NVIC
    hpc,        \* position of FLASH_IRQHandler: "none" or a source line
    mem0,       \* history: the NVM words when the running call was made
    obs,        \* history: what the completion wait of the running call observed
    reads,      \* history: buffer entries read by the running call
    fault,      \* history: an error flag was raised during the running call
    klog        \* history: the writes made in the register-model exercise

vars == <<pc, arg, loop_i, hist, PECR, SR, pekey, prgkey, mem, burst, hwop,
          primask, nvic_en, nvic_pend, hpc, mem0, obs, reads, fault, klog>>

NoArg ==
    [op |-> "none", addr |-> 0, val |-> AllZeros, page |-> 0, half |-> 0,
     irq0 |-> TRUE, pecr0 |-> {}]
NoOp == [kind |-> "none"]

----------------------------------------------------------------------------
(* The register model of the NVM controller *)

SRClearable == {EOP} \cup ErrMask
Locks == {PELOCK, PRGLOCK}

(* A write of the bit set v to FLASH->PECR: ignored while PELOCK is set, and
   a lock bit can be written to 1 only. *)
PECRWrite(pecr, v) ==
    IF PELOCK \in pecr THEN pecr
    ELSE (v \ Locks) \cup (pecr \cap Locks) \cup (v \cap Locks)

(* A write of the bit set v to FLASH->SR: the flags are cleared by writing 1
   to them, BSY is read-only. *)
SRWrite(sr, v) == sr \ (v \cap SRClearable)

(* a key port that takes the second half of the pair without the first *)
PEKeyWrite_AnyOrder(pecr, stage, k) ==
    IF PELOCK \in pecr /\ k = PEKEY2 THEN [PECR |-> pecr \ {PELOCK}, stage |-> 0]
    ELSE [PECR |-> pecr, stage |-> IF k = PEKEY1 THEN 1 ELSE 0]

(* A write of k to FLASH->PEKEYR: PELOCK is cleared by PEKEY1 followed by
   PEKEY2, and by nothing else. *)
PEKeyWrite(pecr, stage, k) ==
    IF PELOCK \notin pecr THEN [PECR |-> pecr, stage |-> 0]
    ELSE IF stage = 0 /\ k = PEKEY1 THEN [PECR |-> pecr, stage |-> 1]
    ELSE IF stage = 1 /\ k = PEKEY2 THEN [PECR |-> pecr \ {PELOCK}, stage |-> 0]
    ELSE [PECR |-> pecr, stage |-> 0]

(* A write of k to FLASH->PRGKEYR: PRGLOCK is cleared by PRGKEY1 followed by
   PRGKEY2 while PELOCK is 0, and by nothing else. *)
PRGKeyWrite(pecr, stage, k) ==
    IF PELOCK \in pecr \/ PRGLOCK \notin pecr THEN [PECR |-> pecr, stage |-> 0]
    ELSE IF stage = 0 /\ k = PRGKEY1 THEN [PECR |-> pecr, stage |-> 1]
    ELSE IF stage = 1 /\ k = PRGKEY2 THEN [PECR |-> pecr \ {PRGLOCK}, stage |-> 0]
    ELSE [PECR |-> pecr, stage |-> 0]

(* A store of the word v to the NVM address a.  What the controller does with
   it is selected by PECR alone: nothing while a lock is set or an operation
   is running; a page erase when ERASE is selected; a latch of the word into
   the half-page buffer when FPRG is selected, the operation starting with
   the 16th word; a word program otherwise. *)
FlashStore(pecr, sr, b, op, a, v) ==
    IF pecr \cap Locks # {} \/ BSY \in sr THEN [burst |-> b, hwop |-> op, SR |-> sr]
    ELSE IF ERASE \in pecr
        THEN [burst |-> b, hwop |-> [kind |-> "erase", addr |-> PageOf(a)],
              SR |-> sr \cup {BSY}]
    ELSE IF FPRG \in pecr
        THEN IF Len(b) + 1 < WordsPerHalfPage
             THEN [burst |-> Append(b, v), hwop |-> op, SR |-> sr]
             ELSE [burst |-> <<>>,
                   hwop |-> [kind |-> "half", addr |-> HalfPageOf(a), data |-> Append(b, v)],
                   SR |-> sr \cup {BSY}]
    ELSE [burst |-> b, hwop |-> [kind |-> "word", addr |-> a, data |-> v],
          SR |-> sr \cup {BSY}]

(* The NVM words after the controller has carried out the operation op:
   an erase leaves the page empty, programming ORs the new word into the old. *)
Commit(m, op) ==
    IF op.kind = "erase"
        THEN [a \in WordAddrs |-> IF a \in PageWords(op.addr) THEN ErasedWord ELSE m[a]]
    ELSE IF op.kind = "word"
        THEN [m EXCEPT ![op.addr] = WordOr(m[op.addr], op.data)]
    ELSE IF op.kind = "half"
        THEN [a \in WordAddrs |->
                IF a \in HalfPageWords(op.addr)
                THEN WordOr(m[a], op.data[((a - op.addr) \div WordBytes) + 1])
                ELSE m[a]]
    ELSE m

(* The FLASH interrupt line is high while an error flag is set and ERRIE is
   set; the NVIC latches it as pending. *)
IrqLine(pecr, sr) == ERRIE \in pecr /\ sr \cap ErrMask # {}
Pend(pecr, sr) == nvic_pend \/ IrqLine(pecr, sr)

(* The handler preempts the main program as soon as the interrupt is pending,
   enabled in the NVIC and not masked. *)
IrqTaken == nvic_pend /\ nvic_en /\ ~primask
CpuRuns == hpc = "none" /\ ~IrqTaken

OldWord == <<42405, 42405>>     \* 0xA5A5A5A5, a word of an earlier image

----------------------------------------------------------------------------
(* The state after reset: both locks set, no mode bit, no flag, interrupts
   of the NVM not configured, interrupts not masked.  The first page of the
   NVM holds an earlier image, the other pages are empty. *)
Init ==
    /\ pc = "idle"
    /\ arg = NoArg
    /\ loop_i = 0
    /\ hist = <<>>
    /\ PECR = {PELOCK, PRGLOCK}
    /\ SR = {}
    /\ pekey = 0
    /\ prgkey = 0
    /\ mem = [a \in WordAddrs |-> IF a \in PageWords(FlashBase) THEN OldWord ELSE ErasedWord]
    /\ burst = <<>>
    /\ hwop = NoOp
    /\ primask = FALSE
    /\ nvic_en = FALSE
    /\ nvic_pend = FALSE
    /\ hpc = "none"
    /\ mem0 = mem
    /\ obs = <<>>
    /\ reads = {}
    /\ fault = FALSE
    /\ klog = <<>>

----------------------------------------------------------------------------
(* The controller's own steps *)

(* The running operation ends: the NVM is updated, BSY falls, EOP rises. *)
HwComplete_NoEOP ==
    /\ hwop # NoOp
    /\ mem' = Commit(mem, hwop)
    /\ SR' = SR \ {BSY}
    /\ hwop' = NoOp
    /\ nvic_pend' = Pend(PECR, SR')
    /\ UNCHANGED <<pc, arg, loop_i, hist, PECR, pekey, prgkey, burst, primask,
                   nvic_en, hpc, mem0, obs, reads, fault, klog>>
HwComplete ==
    /\ hwop # NoOp
    /\ mem' = Commit(mem, hwop)
    /\ SR' = (SR \ {BSY}) \cup {EOP}
    /\ hwop' = NoOp
    /\ nvic_pend' = Pend(PECR, SR')
    /\ UNCHANGED <<pc, arg, loop_i, hist, PECR, pekey, prgkey, burst, primask,
                   nvic_en, hpc, mem0, obs, reads, fault, klog>>

(* The running operation ends with NOTZEROERR raised: the words are written
   all the same. *)
HwCompleteErr ==
    /\ hwop # NoOp
    /\ hwop.kind # "erase"
    /\ mem' = Commit(mem, hwop)
    /\ SR' = ((SR \ {BSY}) \cup {EOP}) \cup {NOTZEROERR}
    /\ hwop' = NoOp
    /\ fault' = TRUE
    /\ nvic_pend' = Pend(PECR, SR')
    /\ UNCHANGED <<pc, arg, loop_i, hist, PECR, pekey, prgkey, burst, primask,
                   nvic_en, hpc, mem0, obs, reads, klog>>

(* The running operation is aborted with WRPERR raised: the NVM keeps its
   words, BSY falls and EOP does not rise. *)
HwAbort ==
    /\ hwop # NoOp
    /\ SR' = (SR \ {BSY}) \cup {WRPERR}
    /\ hwop' = NoOp
    /\ fault' = TRUE
    /\ nvic_pend' = Pend(PECR, SR')
    /\ UNCHANGED <<pc, arg, loop_i, hist, PECR, pekey, prgkey, mem, burst, primask,
                   nvic_en, hpc, mem0, obs, reads, klog>>

----------------------------------------------------------------------------
(* The statements of the driver.  Each is a step of the main program from
   the line `from' to the line `to'; the main program runs only while the
   handler does not. *)

(* FLASH->PEKEYR = k; *)
StorePEKEYR(from, to, k) ==
    /\ pc = from /\ CpuRuns
    /\ LET r == PEKeyWrite(PECR, pekey, k) IN PECR' = r.PECR /\ pekey' = r.stage
    /\ pc' = to
    /\ nvic_pend' = Pend(PECR', SR)
    /\ UNCHANGED <<arg, loop_i, hist, SR, prgkey, mem, burst, hwop, primask,
                   nvic_en, hpc, mem0, obs, reads, fault, klog>>

(* FLASH->PRGKEYR = k; *)
StorePRGKEYR(from, to, k) ==
    /\ pc = from /\ CpuRuns
    /\ LET r == PRGKeyWrite(PECR, prgkey, k) IN PECR' = r.PECR /\ prgkey' = r.stage
    /\ pc' = to
    /\ nvic_pend' = Pend(PECR', SR)
    /\ UNCHANGED <<arg, loop_i, hist, SR, pekey, mem, burst, hwop, primask,
                   nvic_en, hpc, mem0, obs, reads, fault, klog>>

(* FLASH->PECR |= set; FLASH->PECR &= ~clr;  (a read-modify-write) *)
UpdatePECR(from, to, set, clr) ==
    /\ pc = from /\ CpuRuns
    /\ PECR' = PECRWrite(PECR, (PECR \ clr) \cup set)
    /\ pc' = to
    /\ nvic_pend' = Pend(PECR', SR)
    /\ UNCHANGED <<arg, loop_i, hist, SR, pekey, prgkey, mem, burst, hwop, primask,
                   nvic_en, hpc, mem0, obs, reads, fault, klog>>

\* a store of the word v through a pointer to the NVM address a
StoreFlash(from, to, a, v) ==
    /\ pc = from /\ CpuRuns
    /\ LET r == FlashStore(PECR, SR, burst, hwop, a, v)
       IN burst' = r.burst /\ hwop' = r.hwop /\ SR' = r.SR
    /\ pc' = to
    /\ nvic_pend' = Pend(PECR, SR')
    /\ UNCHANGED <<arg, loop_i, hist, PECR, pekey, prgkey, mem, primask,
                   nvic_en, hpc, mem0, obs, reads, fault, klog>>

(* while((FLASH->SR & (1<<0)) == (1<<0)); *)
WaitBSY(from, to) ==
    /\ pc = from /\ CpuRuns
    /\ IF BSY \in SR
       THEN UNCHANGED vars
       ELSE /\ pc' = to
            /\ obs' = Append(obs, <<"BSY", BSY \in SR>>)
            /\ UNCHANGED <<arg, loop_i, hist, PECR, SR, pekey, prgkey, mem, burst, hwop,
                           primask, nvic_en, nvic_pend, hpc, mem0, reads, fault, klog>>

(* while(!(((FLASH->SR & (1<<1)) == (1<<1)))); *)
WaitEOP(from, to) ==
    /\ pc = from /\ CpuRuns
    /\ IF EOP \notin SR
       THEN UNCHANGED vars
       ELSE /\ pc' = to
            /\ obs' = Append(obs, <<"EOP", EOP \in SR>>)
            /\ UNCHANGED <<arg, loop_i, hist, PECR, SR, pekey, prgkey, mem, burst, hwop,
                           primask, nvic_en, nvic_pend, hpc, mem0, reads, fault, klog>>

(* FLASH->SR |= bits;  (a read-modify-write: what was read is written back) *)
UpdateSR(from, to, bits) ==
    /\ pc = from /\ CpuRuns
    /\ SR' = SRWrite(SR, SR \cup bits)
    /\ pc' = to
    /\ nvic_pend' = Pend(PECR, SR')
    /\ UNCHANGED <<arg, loop_i, hist, PECR, pekey, prgkey, mem, burst, hwop, primask,
                   nvic_en, hpc, mem0, obs, reads, fault, klog>>

(* __disable_irq(); __enable_irq(); *)
SetPRIMASK(from, to, m) ==
    /\ pc = from /\ CpuRuns
    /\ primask' = m
    /\ pc' = to
    /\ UNCHANGED <<arg, loop_i, hist, PECR, SR, pekey, prgkey, mem, burst, hwop,
                   nvic_en, nvic_pend, hpc, mem0, obs, reads, fault, klog>>

(* The function returns to its caller. *)
Return(from) ==
    /\ pc = from /\ CpuRuns
    /\ pc' = "idle"
    /\ hist' = Append(hist, arg)
    /\ UNCHANGED <<arg, loop_i, PECR, SR, pekey, prgkey, mem, burst, hwop, primask,
                   nvic_en, nvic_pend, hpc, mem0, obs, reads, fault, klog>>

(* The caller calls a function of the driver. *)
Call(a, first) ==
    /\ pc = "idle" /\ CpuRuns
    /\ Len(hist) < MaxCalls
    /\ pc' = first
    /\ arg' = a
    /\ loop_i' = 0
    /\ mem0' = mem
    /\ obs' = <<>>
    /\ reads' = {}
    /\ fault' = FALSE
    /\ UNCHANGED <<hist, PECR, SR, pekey, prgkey, mem, burst, hwop, primask,
                   nvic_en, nvic_pend, hpc, klog>>

(* The arguments of a call, with the interrupt mask and PECR as the call
   finds them. *)
Args(o, a, v, p, h) ==
    [op |-> o, addr |-> a, val |-> v, page |-> p, half |-> h,
     irq0 |-> ~primask, pecr0 |-> PECR]

(* The caller calls a function of the driver from a section of its own in
   which it has disabled interrupts. *)
CallMasked(a, first) ==
    /\ pc = "idle" /\ CpuRuns
    /\ Len(hist) < MaxCalls
    /\ pc' = first
    /\ arg' = [a EXCEPT !.irq0 = FALSE]
    /\ loop_i' = 0
    /\ mem0' = mem
    /\ obs' = <<>>
    /\ reads' = {}
    /\ fault' = FALSE
    /\ primask' = TRUE
    /\ UNCHANGED <<hist, PECR, SR, pekey, prgkey, mem, burst, hwop,
                   nvic_en, nvic_pend, hpc, klog>>

----------------------------------------------------------------------------
(* void NVM_Init (void) *)

Init_L39 == StorePEKEYR("I39", "I40", PEKEY1)
Init_L40 == StorePEKEYR("I40", "I49", PEKEY2)
Init_L49 == UpdatePECR("I49", "I51", {}, {EOPIE})
Init_L51 == UpdatePECR("I51", "I60", {ERRIE}, {})
Init_L60_NoLock == UpdatePECR("I60", "I61", {}, {})
Init_L60 == UpdatePECR("I60", "I61", {PELOCK}, {})
Init_L61 == Return("I61")

NVM_Init ==
    \/ Init_L39 \/ Init_L40 \/ Init_L49 \/ Init_L51 \/ Init_L60 \/ Init_L61

----------------------------------------------------------------------------
(* void FLASHErase_Page(uint32_t flash_page_addr) *)

Erase_L79 == StorePEKEYR("E79", "E80", PEKEY1)
Erase_L80 == StorePEKEYR("E80", "E83", PEKEY2)
Erase_L83 == StorePRGKEYR("E83", "E84", PRGKEY1)
Erase_L84 == StorePRGKEYR("E84", "E90", PRGKEY2)
(* line 90 left out: the erase mode is not selected *)
Erase_L90_NoEraseSelect == UpdatePECR("E90", "E91", {}, {})
Erase_L90 == UpdatePECR("E90", "E91", {ERASE}, {})
Erase_L91 == UpdatePECR("E91", "E94", {PROG}, {})
Erase_L94 == StoreFlash("E94", "E96", arg.addr, AllZeros)
(* line 96 left out: the wait for BSY is skipped *)
Erase_L96_NoWait == UpdatePECR("E96", "E98", {}, {})
Erase_L96 == WaitBSY("E96", "E98")
Erase_L98 == WaitEOP("E98", "E99")
Erase_L99 == UpdateSR("E99", "E103", {EOP})
Erase_L103 == UpdatePECR("E103", "E104", {PELOCK}, {})
Erase_L104 == Return("E104")

FLASHErase_Page ==
    \/ Erase_L79 \/ Erase_L80 \/ Erase_L83 \/ Erase_L84 \/ Erase_L90 \/ Erase_L91
    \/ Erase_L94 \/ Erase_L96 \/ Erase_L98 \/ Erase_L99 \/ Erase_L103 \/ Erase_L104

----------------------------------------------------------------------------
(* void FLASHUpd_Word(uint32_t flash_word_addr, uint32_t updated_flash_value)
   (endian_swap is not defined: the value is stored as it is given) *)

Word_L136 == StorePEKEYR("W136", "W137", PEKEY1)
Word_L137 == StorePEKEYR("W137", "W140", PEKEY2)
Word_L140 == StorePRGKEYR("W140", "W141", PRGKEY1)
Word_L141 == StorePRGKEYR("W141", "W151", PRGKEY2)
Word_L151 == StoreFlash("W151", "W159", arg.addr, arg.val)
Word_L159 == WaitBSY("W159", "W160")
Word_L160 == WaitEOP("W160", "W161")
Word_L161_NoClear == UpdatePECR("W161", "W165", {}, {})
Word_L161 == UpdateSR("W161", "W165", {EOP})
Word_L165_NoLock == UpdatePECR("W165", "W166", {}, {})
Word_L165 == UpdatePECR("W165", "W166", {PELOCK}, {})
Word_L166 == Return("W166")

FLASHUpd_Word ==
    \/ Word_L136 \/ Word_L137 \/ Word_L140 \/ Word_L141 \/ Word_L151
    \/ Word_L159 \/ Word_L160 \/ Word_L161 \/ Word_L165 \/ Word_L166

----------------------------------------------------------------------------
(* void FLASHUpd_HalfPage(uint32_t loc_var_current_flash_half_page_addr,
                          uint8_t full_page_cnt_in_buf, uint8_t half_page_cnt_in_page) *)

BufIndex(page, half, i) == (32 * page) + (16 * half) + i

Half_L206 == StorePEKEYR("P206", "P207", PEKEY1)
Half_L207 == StorePEKEYR("P207", "P210", PEKEY2)
Half_L210 == StorePRGKEYR("P210", "P211", PRGKEY1)
Half_L211 == StorePRGKEYR("P211", "P221", PRGKEY2)
Half_L221 == UpdatePECR("P221", "P222", {PROG}, {})
Half_L222 == UpdatePECR("P222", "P226", {FPRG}, {})
(* line 226 left out: the interrupts stay enabled during the burst *)
Half_L226_NoMask == SetPRIMASK("P226", "P231", primask)
Half_L226 == SetPRIMASK("P226", "P231", TRUE)

(* for(uint8_t i = 0; i < 16; i++) { store of Rx_Message_buf[...] to the
   half-page address, which is not advanced } *)
Half_L231 ==
    /\ pc = "P231" /\ CpuRuns
    /\ IF loop_i < 16
       THEN /\ LET k == BufIndex(arg.page, arg.half, loop_i)
                   r == FlashStore(PECR, SR, burst, hwop, arg.addr, Rx_Message_buf[k])
               IN /\ burst' = r.burst /\ hwop' = r.hwop /\ SR' = r.SR
                  /\ reads' = reads \cup {k}
            /\ loop_i' = loop_i + 1
            /\ pc' = "P231"
       ELSE /\ pc' = "P237"
            /\ UNCHANGED <<loop_i, SR, burst, hwop, reads>>
    /\ nvic_pend' = Pend(PECR, SR')
    /\ UNCHANGED <<arg, hist, PECR, pekey, prgkey, mem, primask, nvic_en, hpc,
                   mem0, obs, fault, klog>>

Half_L237 == WaitBSY("P237", "P238")
Half_L238 == WaitEOP("P238", "P240")
Half_L240 == UpdateSR("P240", "P243", {EOP})
Half_L243 == UpdatePECR("P243", "P244", {}, {PROG})
Half_L244 == UpdatePECR("P244", "P245", {}, {FPRG})
Half_L245 == UpdatePECR("P245", "P248", {PELOCK}, {})
Half_L248 == SetPRIMASK("P248", "P249", FALSE)
Half_L249 == Return("P249")

FLASHUpd_HalfPage ==
    \/ Half_L206 \/ Half_L207 \/ Half_L210 \/ Half_L211 \/ Half_L221 \/ Half_L222
    \/ Half_L226 \/ Half_L231 \/ Half_L237 \/ Half_L238 \/ Half_L240 \/ Half_L243
    \/ Half_L244 \/ Half_L245 \/ Half_L248 \/ Half_L249

----------------------------------------------------------------------------
(* void FLASHIRQPriorEnable(void) *)

Irq_L265 ==
    /\ pc = "Q265" /\ CpuRuns
    /\ pc' = "Q266"
    /\ UNCHANGED <<arg, loop_i, hist, PECR, SR, pekey, prgkey, mem, burst, hwop, primask,
                   nvic_en, nvic_pend, hpc, mem0, obs, reads, fault, klog>>

Irq_L266 ==
    /\ pc = "Q266" /\ CpuRuns
    /\ nvic_en' = TRUE
    /\ pc' = "Q267"
    /\ UNCHANGED <<arg, loop_i, hist, PECR, SR, pekey, prgkey, mem, burst, hwop, primask,
                   nvic_pend, hpc, mem0, obs, reads, fault, klog>>

Irq_L267 == Return("Q267")

FLASHIRQPriorEnable == Irq_L265 \/ Irq_L266 \/ Irq_L267

----------------------------------------------------------------------------
(* void FLASH_IRQHandler(void) *)

(* The interrupt is taken: the handler preempts the main program. *)
IrqEntry ==
    /\ hpc = "none" /\ IrqTaken
    /\ hpc' = "H257"
    /\ nvic_pend' = FALSE
    /\ UNCHANGED <<pc, arg, loop_i, hist, PECR, SR, pekey, prgkey, mem, burst, hwop,
                   primask, nvic_en, mem0, obs, reads, fault, klog>>

Handler_L257 ==
    /\ hpc = "H257"
    /\ hpc' = "H258"
    /\ UNCHANGED <<pc, arg, loop_i, hist, PECR, SR, pekey, prgkey, mem, burst, hwop,
                   primask, nvic_en, nvic_pend, mem0, obs, reads, fault, klog>>

Handler_L258_NoClear ==
    /\ hpc = "H258"
    /\ hpc' = "H259"
    /\ UNCHANGED <<pc, arg, loop_i, hist, PECR, SR, pekey, prgkey, mem, burst, hwop,
                   primask, nvic_en, nvic_pend, mem0, obs, reads, fault, klog>>
Handler_L258 ==
    /\ hpc = "H258"
    /\ SR' = SRWrite(SR, SR \cup ErrMask)
    /\ hpc' = "H259"
    /\ nvic_pend' = Pend(PECR, SR')
    /\ UNCHANGED <<pc, arg, loop_i, hist, PECR, pekey, prgkey, mem, burst, hwop,
                   primask, nvic_en, mem0, obs, reads, fault, klog>>

(* while(1); *)
Handler_L259 ==
    /\ hpc = "H259"
    /\ UNCHANGED vars

FLASH_IRQHandler == IrqEntry \/ Handler_L257 \/ Handler_L258 \/ Handler_L259

----------------------------------------------------------------------------
(* The caller: the image installer, which calls the driver with page
   addresses, half-page addresses and words of its own choice. *)

WordTargets == {FlashBase}
WordValues == {<<61680, 61680>>, <<3855, 3855>>, <<57005, 48879>>}
HalfCalls == {<<FlashBase, 0, 0>>, <<FlashBase + PageBytes + HalfPageBytes, 1, 1>>}
MaskedHalfCalls == {<<FlashBase + PageBytes + HalfPageBytes, 1, 1>>}

CallInit == Call(Args("init", 0, AllZeros, 0, 0), "I39")
CallIrq == Call(Args("irq", 0, AllZeros, 0, 0), "Q265")
CallErase == \E p \in PageAddrs : Call(Args("erase", p, AllZeros, 0, 0), "E79")
CallWord == \E a \in WordTargets, v \in WordValues : Call(Args("word", a, v, 0, 0), "W136")
CallHalf ==
    \E c \in HalfCalls : Call(Args("half", c[1], AllZeros, c[2], c[3]), "P206")
CallHalfMasked ==
    \E c \in MaskedHalfCalls :
        CallMasked(Args("half", c[1], AllZeros, c[2], c[3]), "P206")

Caller == CallInit \/ CallIrq \/ CallErase \/ CallWord \/ CallHalf \/ CallHalfMasked

Hardware == HwComplete \/ HwCompleteErr \/ HwAbort

Next ==
    \/ Caller
    \/ NVM_Init
    \/ FLASHErase_Page
    \/ FLASHUpd_Word
    \/ FLASHUpd_HalfPage
    \/ FLASHIRQPriorEnable
    \/ FLASH_IRQHandler
    \/ Hardware

Spec == Init /\ [][Next]_vars

(* The CPU keeps executing the main program and the handler, and the
   controller ends every operation it has started. *)
Main == NVM_Init \/ FLASHErase_Page \/ FLASHUpd_Word \/ FLASHUpd_HalfPage \/ FLASHIRQPriorEnable

FairSpec ==
    /\ Init /\ [][Next]_vars
    /\ WF_vars(Main) /\ WF_vars(FLASH_IRQHandler) /\ WF_vars(Hardware)

----------------------------------------------------------------------------
(* The controller that ends every operation it has started with BSY cleared
   and EOP set, with or without an error flag. *)
Completes == HwComplete \/ HwCompleteErr

NextCompletes ==
    \/ Caller
    \/ NVM_Init
    \/ FLASHErase_Page
    \/ FLASHUpd_Word
    \/ FLASHUpd_HalfPage
    \/ FLASHIRQPriorEnable
    \/ FLASH_IRQHandler
    \/ Completes

FairCompletes ==
    /\ Init /\ [][NextCompletes]_vars
    /\ WF_vars(Main) /\ WF_vars(FLASH_IRQHandler) /\ WF_vars(Completes)

----------------------------------------------------------------------------
(* The register model on its own: any sequence of writes to the key ports,
   to PECR and to the NVM, as a simulated device receives them. *)

K_PEKEYR ==
    \E k \in {PEKEY1, PEKEY2, BadKey} :
        /\ Len(klog) < MaxRegWrites
        /\ LET r == PEKeyWrite(PECR, pekey, k) IN PECR' = r.PECR /\ pekey' = r.stage
        /\ klog' = Append(klog, <<"PEKEYR", k>>)
        /\ UNCHANGED <<pc, arg, loop_i, hist, SR, prgkey, mem, burst, hwop, primask,
                       nvic_en, nvic_pend, hpc, mem0, obs, reads, fault>>

K_PRGKEYR ==
    \E k \in {PRGKEY1, PRGKEY2, BadKey} :
        /\ Len(klog) < MaxRegWrites
        /\ LET r == PRGKeyWrite(PECR, prgkey, k) IN PECR' = r.PECR /\ prgkey' = r.stage
        /\ klog' = Append(klog, <<"PRGKEYR", k>>)
        /\ UNCHANGED <<pc, arg, loop_i, hist, SR, pekey, mem, burst, hwop, primask,
                       nvic_en, nvic_pend, hpc, mem0, obs, reads, fault>>

K_PECR ==
    /\ Len(klog) < MaxRegWrites
    /\ PECR' = PECRWrite(PECR, PECR \cup {ERASE})
    /\ klog' = Append(klog, <<"PECR", ERASE>>)
    /\ UNCHANGED <<pc, arg, loop_i, hist, SR, pekey, prgkey, mem, burst, hwop, primask,
                   nvic_en, nvic_pend, hpc, mem0, obs, reads, fault>>

K_Store ==
    /\ Len(klog) < MaxRegWrites
    /\ LET r == FlashStore(PECR, SR, burst, hwop, FlashBase, AllOnes)
       IN burst' = r.burst /\ hwop' = r.hwop /\ SR' = r.SR
    /\ klog' = Append(klog, <<"NVM", FlashBase>>)
    /\ UNCHANGED <<pc, arg, loop_i, hist, PECR, pekey, prgkey, mem, primask,
                   nvic_en, nvic_pend, hpc, mem0, obs, reads, fault>>

NextKeys == K_PEKEYR \/ K_PRGKEYR \/ K_PECR \/ K_Store \/ HwComplete

SpecKeys == Init /\ [][NextKeys]_vars

----------------------------------------------------------------------------
(* Properties *)

Last == hist[Len(hist)]
Returned(o) == pc = "idle" /\ Len(hist) > 0 /\ Last.op = o
Configured == ERRIE \in PECR /\ nvic_en

(* C1, as the specification states it: after erasePage(P) has returned, each
   of the 32 words of page P reads 0xFFFFFFFF. *)
C1_ErasedPageAllOnes ==
    Returned("erase") => \A a \in PageWords(Last.addr) : mem[a] = AllOnes

(* C1, amended: after erasePage(P) has returned, each of the 32 words of
   page P reads 0x00000000, the empty word that programming ORs into,
   whatever the page held before. *)
C1_ErasedPageAllZeros ==
    Returned("erase") =>
        /\ Cardinality(PageWords(Last.addr)) = 32
        /\ \A a \in PageWords(Last.addr) : mem[a] = AllZeros

C1_Witness ==
    /\ Returned("erase")
    /\ \A a \in PageWords(Last.addr) : mem0[a] = OldWord

(* C2: programWord(addr, v) on a word that reads as erased (all-ones in the
   specification's terms, the word erasePage leaves in the model's), in any
   reachable state, leaves addr reading exactly v. *)
C2_ProgramErasedWord ==
    Returned("word") /\ mem0[Last.addr] \in {AllOnes, ErasedWord}
        => mem[Last.addr] = Last.val

(* C3: erasePage, then programWord(addr, a), then programWord(addr, b) with
   no erase in between leaves addr reading a OR b. *)
C3_ProgramTwiceIsOr ==
    ( /\ pc = "idle"
      /\ Len(hist) = 3
      /\ hist[1].op = "erase" /\ hist[2].op = "word" /\ hist[3].op = "word"
      /\ hist[2].addr = hist[3].addr
      /\ hist[2].addr \in PageWords(hist[1].addr) )
        => mem[hist[3].addr] = WordOr(hist[2].val, hist[3].val)

(* C4: programHalfPage(base, page, halfPage) on an erased half-page writes
   16 consecutive words: the word at base+4*i becomes buffer entry
   page*32 + halfPage*16 + i, and exactly those 16 entries are read. *)
C4_HalfPageWrites ==
    ( /\ Returned("half")
      /\ \A a \in HalfPageWords(Last.addr) : mem0[a] = ErasedWord )
        => /\ \A i \in 0..15 :
                mem[Last.addr + 4 * i] = Rx_Message_buf[Last.page * 32 + Last.half * 16 + i]
           /\ reads = {Last.page * 32 + Last.half * 16 + i : i \in 0..15}

(* C5: after erasePage(0x08003000); programWord(0x08003000, 0xDEADBEEF);
   programHalfPage(0x08003000, 0, 0) with buffer entries 0..15 at offset 0,
   the word at 0x08003000+4*i reads i for each i in 0..15. *)
C5_ExampleScenario ==
    ( /\ pc = "idle"
      /\ Len(hist) = 3
      /\ hist[1].op = "erase" /\ hist[1].addr = FlashBase
      /\ hist[2].op = "word" /\ hist[2].addr = FlashBase /\ hist[2].val = <<57005, 48879>>
      /\ hist[3].op = "half" /\ hist[3].addr = FlashBase
      /\ hist[3].page = 0 /\ hist[3].half = 0 )
        => \A i \in 0..15 : mem[FlashBase + 4 * i] = Word(i)

(* C6: an error flag raised during erasePage, programWord or programHalfPage
   (the error interrupt being set up, and interrupts enabled at the call)
   leads to the fault handler's halt, also when it is raised while
   programHalfPage has interrupts disabled. *)
C6_FaultLeadsToHalt ==
    (fault /\ Configured /\ arg.irq0 /\ arg.op \in {"erase", "word", "half"})
        ~> (hpc = "H259")

(* C7: no halted state has the controller unlocked: when the fault handler
   has preempted an operation after its unlock, PELOCK is set again in the
   final halted state. *)
C7_HaltedIsLocked ==
    hpc = "H259" => PELOCK \in PECR

(* C8: a lock flag is clear only after both halves of its key pair were
   written in order (PRGLOCK only with PELOCK cleared as well); while a lock
   is still set, the protected writes made have changed neither the mode
   bits (PELOCK) nor any NVM word (either lock). *)
PortWrites(port) == SelectSeq(klog, LAMBDA w : w[1] = port)
HasPair(port, k1, k2) ==
    LET w == PortWrites(port)
    IN \E j \in 1..(Len(w) - 1) : w[j][2] = k1 /\ w[j + 1][2] = k2

C8_LocksNeedKeys ==
    /\ PELOCK \notin PECR => HasPair("PEKEYR", PEKEY1, PEKEY2)
    /\ PRGLOCK \notin PECR =>
          HasPair("PRGKEYR", PRGKEY1, PRGKEY2) /\ HasPair("PEKEYR", PEKEY1, PEKEY2)
    /\ PELOCK \in PECR => PECR = {PELOCK, PRGLOCK}
    /\ PECR \cap Locks # {} => mem = mem0 /\ hwop = NoOp /\ SR = {}

(* a wrong-order attempt at PEKEYR, then a mode-bit write and an NVM write *)
C8_Witness ==
    /\ Len(klog) >= 4
    /\ klog[1] = <<"PEKEYR", PEKEY2>> /\ klog[2] = <<"PEKEYR", PEKEY1>>
    /\ klog[3] = <<"PECR", ERASE>> /\ klog[4] = <<"NVM", FlashBase>>
    /\ PELOCK \in PECR

(* C9: in erasePage, programWord and programHalfPage the step that clears
   the completion flag and every later step come only after BSY was
   observed 0 and then EOP was observed 1, in that order; the wait for EOP
   begins only after BSY was observed 0. *)
AfterBSYWait == {"E98", "W160", "P238"}
AfterEOPWait == {"E99", "E103", "E104", "W161", "W165", "W166",
                 "P240", "P243", "P244", "P245", "P248", "P249"}

C9_TwoPhaseWait ==
    /\ pc \in AfterBSYWait => obs = << <<"BSY", FALSE>> >> /\ BSY \notin SR
    /\ pc \in AfterEOPWait => obs = << <<"BSY", FALSE>>, <<"EOP", TRUE>> >> /\ BSY \notin SR

C9_Witness ==
    pc = "P240" /\ EOP \in SR /\ obs = << <<"BSY", FALSE>>, <<"EOP", TRUE>> >>

(* C10: in programHalfPage, from the first burst write until the completion
   flag has been cleared, interrupts are masked and the handler does not
   run; after the normal return interrupts are enabled. *)
BurstWindow == {"P231", "P237", "P238", "P240"}

C10_BurstMasked ==
    /\ pc \in BurstWindow => primask /\ hpc = "none"
    /\ Returned("half") => ~primask

(* the burst is under way with the error interrupt pending and set up *)
C10_Witness ==
    pc = "P238" /\ nvic_pend /\ nvic_en /\ primask /\ hpc = "none"

ReturnedOp == Returned("erase") \/ Returned("word") \/ Returned("half")

(* C11, as the specification states it: on the normal return of erasePage,
   programWord and programHalfPage both lock flags, PELOCK and PRGLOCK, are
   set, so that between calls neither lock is clear. *)
C11_BothLocksOnReturn ==
    ReturnedOp => PELOCK \in PECR /\ PRGLOCK \in PECR

(* C11, amended: on the normal return of erasePage, programWord and
   programHalfPage the data lock PELOCK is set, and between calls PELOCK is
   never clear, so that a write to the NVM made between calls starts
   nothing. *)
C11_DataLockOnReturn ==
    /\ ReturnedOp => PELOCK \in PECR
    /\ pc = "idle" =>
          /\ PELOCK \in PECR
          /\ FlashStore(PECR, SR, burst, hwop, FlashBase, AllOnes).hwop = NoOp

(* programWord has returned with PELOCK set and PRGLOCK still clear *)
C11_Witness ==
    Returned("word") /\ PELOCK \in PECR /\ PRGLOCK \notin PECR

(* C12: every call blocks until the controller has completed or a fault has
   preempted it: with a controller that ends every started operation with
   BSY cleared and EOP set, a call that was made returns or ends in the
   fault halt; and there is no timeout: a wait for BSY leaves its line only
   with BSY clear, a wait for EOP only with EOP set. *)
BSYWaits == {"E96", "W159", "P237"}
EOPWaits == {"E98", "W160", "P238"}

C12_BlocksUntilDone ==
    /\ (pc # "idle") ~> (pc = "idle" \/ hpc = "H259")
    /\ [][ /\ (pc \in BSYWaits /\ BSY \in SR) => pc' = pc
           /\ (pc \in EOPWaits /\ EOP \notin SR) => pc' = pc ]_vars

(* programWord waits at line 159 while the controller is busy with its word *)
C12_Witness ==
    pc = "W159" /\ BSY \in SR /\ hwop # NoOp /\ hwop.kind = "word"

(* C13: init is idempotent: when init has returned, EOPIE is clear, ERRIE
   is set and PELOCK is set; and when the call before it was init as well,
   the second call has left PECR (lock flags, mode bits, interrupt-enable
   bits) and every NVM word as the first call left them. *)
C13_InitIdempotent ==
    Returned("init") =>
        /\ EOPIE \notin PECR /\ ERRIE \in PECR /\ PELOCK \in PECR
        /\ (Len(hist) >= 2 /\ hist[Len(hist) - 1].op = "init") =>
              PECR = Last.pecr0 /\ mem = mem0

(* init was called twice in a row after an erase that left mode bits set *)
C13_Witness ==
    /\ Returned("init") /\ Len(hist) = 3
    /\ hist[1].op = "erase" /\ hist[2].op = "init"
    /\ ERASE \in PECR /\ ERRIE \in Last.pecr0

(* C14: when erasePage, programWord or programHalfPage has returned, the
   mode-select bits ERASE, PROG and FPRG are as the call found them. *)
ModeBits == {ERASE, PROG, FPRG}

C14_ModeBitsRestored ==
    ReturnedOp => PECR \cap ModeBits = Last.pecr0 \cap ModeBits

(* C15: the half-page burst commits as one: in every state of a
   programHalfPage call (cut short, never completing or returned) the 16
   words of the target half-page are either all as the call found them or
   all the committed burst (each word ORed with its buffer entry), and EOP
   is set only after all 16 words have been written. *)
BurstWord(a) ==
    WordOr(mem0[a], Rx_Message_buf[BufIndex(arg.page, arg.half, (a - arg.addr) \div WordBytes)])

C15_BurstAtomic ==
    arg.op = "half" =>
        /\ \/ \A a \in HalfPageWords(arg.addr) : mem[a] = mem0[a]
           \/ \A a \in HalfPageWords(arg.addr) : mem[a] = BurstWord(a)
        /\ EOP \in SR => loop_i = 16

(* C16: once the fault handler has passed its flag-clearing step, every
   error flag of SR is clear, and the system stays halted: from then on the
   handler stays at its endless loop, the main program does not move, and
   no register and no NVM word changes. *)
C16_HandlerClearsAndHalts ==
    /\ [](hpc = "H259" => SR \cap ErrMask = {})
    /\ [][hpc = "H259" =>
            /\ hpc' = "H259" /\ pc' = pc
            /\ UNCHANGED <<PECR, SR, pekey, prgkey, mem, primask, nvic_en>> ]_vars

(* the handler has preempted an operation at its wait and halted *)
C16_Witness ==
    hpc = "H259" /\ fault /\ pc \in (BSYWaits \cup EOPWaits)

(* C17: the completion flag is cleared as the last step of the wait: when
   erasePage, programWord or programHalfPage has returned EOP is clear, EOP
   is clear between calls, and every operation reaches its first write to
   the NVM with EOP clear, so that no operation sees a stale EOP. *)
FirstStore == pc \in {"E94", "W151"} \/ (pc = "P231" /\ loop_i = 0)

C17_NoStaleEOP ==
    /\ ReturnedOp => EOP \notin SR
    /\ pc = "idle" => EOP \notin SR
    /\ FirstStore => EOP \notin SR

(* programWord is about to write its word after an earlier operation has
   completed and returned *)
C17_Witness ==
    /\ pc = "W151" /\ Len(hist) >= 1
    /\ hist[Len(hist)].op \in {"erase", "word", "half"}
    /\ EOP \notin SR

(* C18: each operation changes only its target region: erasePage(P) leaves
   every word outside page P as it was, programWord(addr, v) every word
   other than addr, programHalfPage(base, ..) every word outside the 16
   words of its half-page. *)
Target(c) ==
    IF c.op = "erase" THEN PageWords(c.addr)
    ELSE IF c.op = "word" THEN {c.addr}
    ELSE HalfPageWords(c.addr)

C18_Frame ==
    ReturnedOp => \A a \in WordAddrs \ Target(Last) : mem[a] = mem0[a]

(* C19: the step that clears the completion flag (SR |= EOP) clears EOP
   only: an error flag that is set when the step runs is still set after
   it. *)
EOPClears == {"E99", "W161", "P240"}

C19_ClearOnlyEOP ==
    [][(pc \in EOPClears /\ pc' # pc) => SR' \cap ErrMask = SR \cap ErrMask]_vars

(* C20: programHalfPage restores the interrupt-enable state it found: when
   it has returned, interrupts are enabled if they were enabled at the call
   and disabled if the caller had disabled them. *)
C20_IrqStateRestored ==
    Returned("half") => (primask = ~Last.irq0)

====
